---- MODULE Spec2Model ----
(***************************************************************************)
(* Model of qec's merge engine (package compose): MergeComposeFiles,       *)
(* prefixResourceNames, DetectPortConflicts and ResolvePortConflicts.      *)
(*                                                                         *)
(* Go strings are sequences of one-character strings, so that              *)
(* concatenation, strings.Split, strconv.ParseUint / FormatUint and the    *)
(* byte-wise order of sort.Strings are computed and not assumed.           *)
(* A uint32 is a pair <<hi, lo>> of 16-bit halves (value hi*2^16 + lo), so *)
(* that arithmetic modulo 2^32 is exact.                                   *)
(* A Go map is a function; a nil map and an empty map are both the empty   *)
(* function (the code only ranges over them and guards every write).       *)
(* A []ServicePortConfig is a reference into the variable heap: copies of  *)
(* a ServiceConfig share their Ports backing array.                        *)
(***************************************************************************)
EXTENDS Integers, Sequences, FiniteSets, TLC

\* ------------------------------------------------------------------ strings

\* The characters used, in ascending byte order (ASCII).
Alphabet == <<"-", ".", "/", "0", "1", "2", "3", "4", "5", "6", "7", "8", "9",
              ":", "_", "a", "b", "c", "d", "x", "y">>

Ord(c) == CHOOSE i \in 1..Len(Alphabet) : Alphabet[i] = c

Digits == <<"0", "1", "2", "3", "4", "5", "6", "7", "8", "9">>

IsDigit(c) == \E i \in 1..10 : Digits[i] = c

DigitVal(c) == (CHOOSE i \in 1..10 : Digits[i] = c) - 1

Range(s) == {s[i] : i \in 1..Len(s)}

\* Go's < on strings: byte-wise lexicographic.
StrLess(s, t) ==
    \E k \in 1..(Len(t)) :
        /\ \A j \in 1..(k - 1) : j <= Len(s) /\ s[j] = t[j]
        /\ k - 1 <= Len(s)
        /\ (k > Len(s) \/ Ord(s[k]) < Ord(t[k]))

\* strings.Split(s, sep) for a one-character separator.
RECURSIVE SplitFrom(_, _, _, _)
SplitFrom(s, sep, i, cur) ==
    IF i > Len(s) THEN <<cur>>
    ELSE IF s[i] = sep THEN <<cur>> \o SplitFrom(s, sep, i + 1, <<>>)
    ELSE SplitFrom(s, sep, i + 1, Append(cur, s[i]))

Split(s, sep) == SplitFrom(s, sep, 1, <<>>)

\* sort.Strings: ascending, duplicates kept.
RECURSIVE InsertSorted(_, _)
InsertSorted(sorted, s) ==
    IF sorted = <<>> THEN <<s>>
    ELSE IF StrLess(s, Head(sorted)) THEN <<s>> \o sorted
    ELSE <<Head(sorted)>> \o InsertSorted(Tail(sorted), s)

RECURSIVE SortStrings(_)
SortStrings(names) ==
    IF names = <<>> THEN <<>>
    ELSE InsertSorted(SortStrings(Tail(names)), Head(names))

\* ------------------------------------------------------------------ uint32

Half == 2 ^ 16

U32(hi, lo) == <<hi, lo>>

U32Zero == U32(0, 0)

\* uint32 addition (wraps modulo 2^32).
U32Add(a, b) ==
    LET lo == a[2] + b[2]
        hi == a[1] + b[1] + (lo \div Half)
    IN  U32(hi % Half, lo % Half)

\* a * uint32(n) for a small index n (wraps modulo 2^32).
U32MulIndex(a, n) ==
    LET lo == a[2] * n
        hi == a[1] * n + (lo \div Half)
    IN  U32(hi % Half, lo % Half)

\* strconv.ParseUint(s, 10, 32): digits only, no sign, value below 2^32.
\* The accumulator is hi*2^16 + lo; ok is FALSE after a syntax or range error.
RECURSIVE ParseFrom(_, _, _)
ParseFrom(s, i, acc) ==
    IF i > Len(s) THEN [ok |-> TRUE, val |-> acc]
    ELSE IF ~IsDigit(s[i]) THEN [ok |-> FALSE, val |-> U32Zero]
    ELSE LET lo == acc[2] * 10 + DigitVal(s[i])
             hi == acc[1] * 10 + (lo \div Half)
         IN  IF hi >= Half THEN [ok |-> FALSE, val |-> U32Zero]
             ELSE ParseFrom(s, i + 1, U32(hi, lo % Half))

\* Mutant: the leading digits are parsed and the rest of the text is ignored.
ParseUint_LeadingDigits(s) ==
    LET n == Cardinality({i \in 1..Len(s) : \A j \in 1..i : IsDigit(s[j])})
    IN  IF n = 0 THEN [ok |-> FALSE, val |-> U32Zero]
        ELSE ParseFrom(SubSeq(s, 1, n), 1, U32Zero)

ParseUint(s) ==
    IF s = <<>> THEN [ok |-> FALSE, val |-> U32Zero]
    ELSE ParseFrom(s, 1, U32Zero)

\* strconv.FormatUint(uint64(v), 10): decimal, no leading zeros.
RECURSIVE FormatDigits(_)
FormatDigits(v) ==
    IF v = U32Zero THEN <<>>
    ELSE LET qhi == v[1] \div 10
             t   == (v[1] % 10) * Half + v[2]
         IN  Append(FormatDigits(U32(qhi, t \div 10)), Digits[(t % 10) + 1])

FormatUint(v) == IF v = U32Zero THEN <<"0">> ELSE FormatDigits(v)

\* ------------------------------------------------------------------ maps

EmptyMap == [k \in {} |-> k]

\* m[k] = v on a Go map.
MapPut(m, k, v) == [j \in (DOMAIN m) \cup {k} |-> IF j = k THEN v ELSE m[j]]

\* Mutant: a key already present keeps its entry.
MapUnion_FirstWins(dst, src) ==
    [j \in (DOMAIN dst) \cup (DOMAIN src) |-> IF j \in DOMAIN dst THEN dst[j] ELSE src[j]]

\* for k, v := range src { dst[k] = v }
MapUnion(dst, src) ==
    [j \in (DOMAIN dst) \cup (DOMAIN src) |-> IF j \in DOMAIN src THEN src[j] ELSE dst[j]]

\* The iteration orders a range over a map with key set S can take.
RECURSIVE Orders(_)
Orders(S) ==
    IF S = {} THEN {<<>>}
    ELSE UNION {{<<k>> \o o : o \in Orders(S \ {k})} : k \in S}

\* ------------------------------------------------------------------ paths

\* strings.Join(elems, sep).
RECURSIVE JoinStrings(_, _)
JoinStrings(elems, sep) ==
    IF elems = <<>> THEN <<>>
    ELSE IF Len(elems) = 1 THEN elems[1]
    ELSE elems[1] \o sep \o JoinStrings(Tail(elems), sep)

\* filepath.IsAbs on Unix.
IsAbs(path) == Len(path) > 0 /\ path[1] = "/"

\* The elements filepath.Clean keeps: "" and "." dropped, ".." removes the
\* element before it, is dropped at the root and kept at the start of a
\* relative path.
RECURSIVE CleanElems(_, _, _)
CleanElems(elems, kept, rooted) ==
    IF elems = <<>> THEN kept
    ELSE LET e == Head(elems)
         IN  IF e = <<>> \/ e = <<".">> THEN CleanElems(Tail(elems), kept, rooted)
             ELSE IF e = <<".", ".">>
             THEN IF kept # <<>> /\ kept[Len(kept)] # <<".", ".">>
                  THEN CleanElems(Tail(elems), SubSeq(kept, 1, Len(kept) - 1), rooted)
                  ELSE IF rooted THEN CleanElems(Tail(elems), kept, rooted)
                  ELSE CleanElems(Tail(elems), Append(kept, e), rooted)
             ELSE CleanElems(Tail(elems), Append(kept, e), rooted)

\* filepath.Clean.
Clean(path) ==
    LET kept == CleanElems(Split(path, "/"), <<>>, IsAbs(path))
        body == JoinStrings(kept, <<"/">>)
    IN  IF IsAbs(path) THEN <<"/">> \o body
        ELSE IF body = <<>> THEN <<".">> ELSE body

\* filepath.Join(a, b): empty elements are ignored, the result is cleaned.
Join(a, b) ==
    IF a = <<>> /\ b = <<>> THEN <<>>
    ELSE IF a = <<>> THEN Clean(b)
    ELSE IF b = <<>> THEN Clean(a)
    ELSE Clean(a \o <<"/">> \o b)

\* filepath.Base: the last element of the path.
Base(path) ==
    LET elems == SelectSeq(Split(path, "/"), LAMBDA e : e # <<>>)
    IN  IF path = <<>> THEN <<".">>
        ELSE IF elems = <<>> THEN <<"/">>
        ELSE elems[Len(elems)]

\* ------------------------------------------------------------------ port conflicts

\* types.ServicePortConfig: the fields the engine reads or a caller can observe.
Binding(published, target, protocol) ==
    [Published |-> published, Target |-> target, Protocol |-> protocol]

\* Mutant: a service is entered once for a port, however many of its
\* bindings publish it.
PortMapAppend_OncePerService(portMap, hostPort, name) ==
    IF hostPort \in DOMAIN portMap /\ name \in Range(portMap[hostPort]) THEN portMap
    ELSE MapPut(portMap, hostPort,
                IF hostPort \in DOMAIN portMap THEN Append(portMap[hostPort], name)
                ELSE <<name>>)

\* portMap[hostPort] = append(portMap[hostPort], name)
PortMapAppend(portMap, hostPort, name) ==
    MapPut(portMap, hostPort,
           IF hostPort \in DOMAIN portMap THEN Append(portMap[hostPort], name)
           ELSE <<name>>)

\* Mutant: only the bindings of protocol tcp are entered.
RECURSIVE ScanPorts_TcpOnly(_, _, _, _)
ScanPorts_TcpOnly(portMap, name, ports, i) ==
    IF i > Len(ports) THEN portMap
    ELSE IF ports[i].Published = <<>> \/ ports[i].Protocol # "tcp"
    THEN ScanPorts_TcpOnly(portMap, name, ports, i + 1)
    ELSE LET r == ParseUint(ports[i].Published)
         IN  IF ~r.ok THEN ScanPorts_TcpOnly(portMap, name, ports, i + 1)
             ELSE ScanPorts_TcpOnly(PortMapAppend(portMap, r.val, name), name, ports, i + 1)

\* The inner loop of DetectPortConflicts over one service's bindings.
RECURSIVE ScanPorts(_, _, _, _)
ScanPorts(portMap, name, ports, i) ==
    IF i > Len(ports) THEN portMap
    ELSE IF ports[i].Published = <<>> THEN ScanPorts(portMap, name, ports, i + 1)
    ELSE LET r == ParseUint(ports[i].Published)
         IN  IF ~r.ok THEN ScanPorts(portMap, name, ports, i + 1)
             ELSE ScanPorts(PortMapAppend(portMap, r.val, name), name, ports, i + 1)

\* The outer loop of DetectPortConflicts, visiting the services in `order`.
RECURSIVE ScanServices(_, _, _, _, _)
ScanServices(portMap, svcs, h, order, k) ==
    IF k > Len(order) THEN portMap
    ELSE ScanServices(ScanPorts(portMap, order[k], h[svcs[order[k]].Ports], 1),
                      svcs, h, order, k + 1)

\* Mutant: the conflict list is left in map iteration order.
ConflictList_Unsorted(serviceNames) == serviceNames

\* The list kept for a conflicting port: sort.Strings(serviceNames).
ConflictList(serviceNames) == SortStrings(serviceNames)

\* DetectPortConflicts(services): host port -> sorted names, for the ports
\* with more than one entry. `order` is the map iteration order of this call.
DetectPortConflicts(svcs, h, order) ==
    LET portMap == ScanServices(EmptyMap, svcs, h, order, 1)
    IN  [p \in {q \in DOMAIN portMap : Len(portMap[q]) > 1} |-> ConflictList(portMap[p])]

\* Position of name in the conflict list, -1 when absent.
ServiceIndex(conflictingServices, name) ==
    IF \E j \in 1..Len(conflictingServices) : conflictingServices[j] = name
    THEN (CHOOSE j \in 1..Len(conflictingServices) :
             /\ conflictingServices[j] = name
             /\ \A l \in 1..(j - 1) : conflictingServices[l] # name) - 1
    ELSE -1

\* Mutant: a new port above 65535 is replaced by 65535.
NewPort_Clamped(hostPort, off, serviceIndex) ==
    LET v == U32Add(hostPort, U32MulIndex(off, serviceIndex))
    IN  IF v[1] > 0 THEN U32(0, Half - 1) ELSE v

\* Mutant: the index counts from one, so the first service is shifted too.
NewPort_OneBased(hostPort, off, serviceIndex) ==
    U32Add(hostPort, U32MulIndex(off, serviceIndex + 1))

\* newPort := uint32(hostPort) + (offset * uint32(serviceIndex))
NewPort(hostPort, off, serviceIndex) == U32Add(hostPort, U32MulIndex(off, serviceIndex))

NoError == [kind |-> "nil", port |-> U32Zero]

InUseError(port) == [kind |-> "in_use", port |-> port]

RemainingError == [kind |-> "remaining", port |-> U32Zero]

\* Mutant: a port already claimed is taken all the same.
ResolveBinding_TakesUsedPort(st, cf, off, name, sid, i) ==
    LET port == st.heap[sid][i]
        r    == ParseUint(port.Published)
    IN  IF port.Published = <<>> \/ ~r.ok \/ r.val \notin DOMAIN cf THEN st
        ELSE LET serviceIndex == ServiceIndex(cf[r.val], name)
                 newPort      == NewPort(r.val, off, serviceIndex)
             IN  IF serviceIndex = -1 THEN st
                 ELSE [st EXCEPT !.heap[sid][i].Published = FormatUint(newPort),
                                 !.usedPorts = @ \cup {newPort}]

\* Mutant: the rewritten binding is built anew from the new host port and the
\* container port, with the default protocol.
ResolveBinding_RebuildsBinding(st, cf, off, name, sid, i) ==
    LET port == st.heap[sid][i]
        r    == ParseUint(port.Published)
    IN  IF port.Published = <<>> \/ ~r.ok \/ r.val \notin DOMAIN cf THEN st
        ELSE LET serviceIndex == ServiceIndex(cf[r.val], name)
                 newPort      == NewPort(r.val, off, serviceIndex)
             IN  IF serviceIndex = -1 THEN st
                 ELSE IF newPort \in st.usedPorts
                 THEN [st EXCEPT !.err = InUseError(newPort)]
                 ELSE [st EXCEPT !.heap[sid][i] = Binding(FormatUint(newPort), port.Target, "tcp"),
                                 !.usedPorts = @ \cup {newPort}]

\* The body of the loop over service.Ports for the binding at index i of the
\* slice sid: st is [heap, usedPorts, err]; an error ends the whole call.
ResolveBinding(st, cf, off, name, sid, i) ==
    LET port == st.heap[sid][i]
        r    == ParseUint(port.Published)
    IN  IF port.Published = <<>> \/ ~r.ok \/ r.val \notin DOMAIN cf THEN st
        ELSE LET serviceIndex == ServiceIndex(cf[r.val], name)
                 newPort      == NewPort(r.val, off, serviceIndex)
             IN  IF serviceIndex = -1 THEN st
                 ELSE IF newPort \in st.usedPorts
                 THEN [st EXCEPT !.err = InUseError(newPort)]
                 ELSE [st EXCEPT !.heap[sid][i].Published = FormatUint(newPort),
                                 !.usedPorts = @ \cup {newPort}]

RECURSIVE ResolvePorts(_, _, _, _, _, _)
ResolvePorts(st, cf, off, name, sid, i) ==
    IF st.err # NoError \/ i > Len(st.heap[sid]) THEN st
    ELSE ResolvePorts(ResolveBinding(st, cf, off, name, sid, i), cf, off, name, sid, i + 1)

\* One iteration of `for name, service := range services` in ResolvePortConflicts.
ResolveOneService(st, svcs, cf, off, name) ==
    ResolvePorts(st, cf, off, name, svcs[name].Ports, 1)

\* The range loop of ResolvePortConflicts run to its end in one iteration
\* order: stops at the first error.
RECURSIVE RunLoop(_, _, _, _, _, _)
RunLoop(st, svcs, cf, off, order, k) ==
    IF st.err # NoError \/ k > Len(order) THEN st
    ELSE RunLoop(ResolveOneService(st, svcs, cf, off, order[k]), svcs, cf, off, order, k + 1)

\* ResolvePortConflicts(services, offset) as one call, every range loop
\* taking the iteration order `order`: the resulting arrays and the error.
RunResolve(svcs, h, off, order) ==
    LET cf == DetectPortConflicts(svcs, h, order)
        st == RunLoop([heap |-> h, usedPorts |-> {}, err |-> NoError], svcs, cf, off, order, 1)
    IN  IF cf = EmptyMap THEN [heap |-> h, err |-> NoError]
        ELSE IF st.err # NoError THEN [heap |-> st.heap, err |-> st.err]
        ELSE [heap |-> st.heap,
              err  |-> IF DetectPortConflicts(svcs, st.heap, order) # EmptyMap
                       THEN RemainingError ELSE NoError]

\* ------------------------------------------------------------------ merge

\* Mutant: every build context is joined to the base directory.
AdjustBuildContexts_JoinsAbsolute(project, baseDir) ==
    [project EXCEPT !.Services =
        [n \in DOMAIN project.Services |->
            LET service == project.Services[n]
            IN  IF service.Build # <<>>
                THEN [service EXCEPT !.Build = <<Join(baseDir, service.Build[1])>>]
                ELSE service]]

\* adjustBuildContexts: Build is <<>> (nil) or <<context>>; a relative
\* context is joined to the base directory.
AdjustBuildContexts(project, baseDir) ==
    [project EXCEPT !.Services =
        [n \in DOMAIN project.Services |->
            LET service == project.Services[n]
            IN  IF service.Build # <<>> /\ ~IsAbs(service.Build[1])
                THEN [service EXCEPT !.Build = <<Join(baseDir, service.Build[1])>>]
                ELSE service]]

\* Mutant: another separator.
Prefixed_Dash(prefix, name) == prefix \o <<"-">> \o name

\* newName := prefix + "_" + name
Prefixed(prefix, name) == prefix \o <<"_">> \o name

\* Mutant: a key that already starts with prefix_ is kept.
RenameKeys_Once(m, prefix) ==
    LET done(n)   == /\ Len(n) > Len(prefix)
                     /\ SubSeq(n, 1, Len(prefix) + 1) = prefix \o <<"_">>
        newKey(n) == IF done(n) THEN n ELSE Prefixed(prefix, n)
    IN  [k \in {newKey(n) : n \in DOMAIN m} |-> m[CHOOSE n \in DOMAIN m : newKey(n) = k]]

\* for name, v := range m { nameMap[name] = newName; new[newName] = v }:
\* the renamed map (prefix + "_" + name is one-to-one in name) ...
RenameKeys(m, prefix) ==
    [k \in {Prefixed(prefix, n) : n \in DOMAIN m} |->
        m[CHOOSE n \in DOMAIN m : Prefixed(prefix, n) = k]]

\* ... and the entries the loop adds to nameMap.
NameMapOf(m, prefix) == [n \in DOMAIN m |-> Prefixed(prefix, n)]

\* A service volume whose Source is a key of nameMap gets the mapped name.
PrefixMount(volume, nameMap) ==
    IF volume.Source # <<>> /\ volume.Source \in DOMAIN nameMap
    THEN [volume EXCEPT !.Source = nameMap[volume.Source]]
    ELSE volume

\* Mutant: the dependency keys are not rewritten.
PrefixDependsOn_Unprefixed(dependsOn, prefix) == dependsOn

\* newDependsOn[prefix + "_" + depName] = config, for every entry.
PrefixDependsOn(dependsOn, prefix) == RenameKeys(dependsOn, prefix)

\* Mutant: the alias is prefixed like the target.
PrefixLink_AliasPrefixed(link, prefix) ==
    LET parts == Split(link, ":")
    IN  IF Len(parts) = 2
        THEN Prefixed(prefix, parts[1]) \o <<":">> \o Prefixed(prefix, parts[2])
        ELSE Prefixed(prefix, link)

\* One links entry: target:alias or a bare target.
PrefixLink(link, prefix) ==
    LET parts == Split(link, ":")
    IN  IF Len(parts) = 2
        THEN Prefixed(prefix, parts[1]) \o <<":">> \o parts[2]
        ELSE Prefixed(prefix, link)

\* prefixResourceNames(prefix) on the project of a ComposeFile.
PrefixResourceNames(project, prefix) ==
    LET newServices == RenameKeys(project.Services, prefix)
        newVolumes  == RenameKeys(project.Volumes, prefix)
        nameMap     == MapUnion(NameMapOf(project.Services, prefix),
                                NameMapOf(project.Volumes, prefix))
        withMounts  ==
            [k \in DOMAIN newServices |->
                LET service == newServices[k]
                IN  [service EXCEPT !.Volumes =
                        [i \in 1..Len(service.Volumes) |->
                            PrefixMount(service.Volumes[i], nameMap)]]]
        withRefs    ==
            [k \in DOMAIN withMounts |->
                LET service == withMounts[k]
                IN  [service EXCEPT
                        !.DependsOn = PrefixDependsOn(service.DependsOn, prefix),
                        !.Links = [i \in 1..Len(service.Links) |->
                                      PrefixLink(service.Links[i], prefix)]]]
    IN  [project EXCEPT !.Services = withRefs,
                        !.Volumes  = newVolumes,
                        !.Configs  = RenameKeys(project.Configs, prefix),
                        !.Secrets  = RenameKeys(project.Secrets, prefix)]

\* Per file: adjustBuildContexts, then prefixResourceNames(filepath.Base(BaseDir)).
PrepareFile(cf) ==
    [cf EXCEPT !.Project =
        PrefixResourceNames(AdjustBuildContexts(cf.Project, cf.BaseDir), Base(cf.BaseDir))]

\* Mutant: the networks of the later files are not copied.
UnionInto_NetworksDropped(base, project) ==
    [Services |-> MapUnion(base.Services, project.Services),
     Volumes  |-> MapUnion(base.Volumes, project.Volumes),
     Networks |-> base.Networks,
     Configs  |-> MapUnion(base.Configs, project.Configs),
     Secrets  |-> MapUnion(base.Secrets, project.Secrets)]

\* The body of the loop over files[1:]: every map of the file is copied,
\* key by key, into the base project.
UnionInto(base, project) ==
    [Services |-> MapUnion(base.Services, project.Services),
     Volumes  |-> MapUnion(base.Volumes, project.Volumes),
     Networks |-> MapUnion(base.Networks, project.Networks),
     Configs  |-> MapUnion(base.Configs, project.Configs),
     Secrets  |-> MapUnion(base.Secrets, project.Secrets)]

\* ------------------------------------------------------------------ inputs

\* Largest number of services in a service set handed to ResolvePortConflicts.
MaxTestServices == 3

NamePool == << <<"a">>, <<"b">>, <<"a", "b">>, <<"c">>, <<"a", "_">> >>

TestNames == {NamePool[k] : k \in 1..MaxTestServices}

P80 == <<"8", "0">>

P180 == <<"1", "8", "0">>

PMax == <<"4", "2", "9", "4", "9", "6", "7", "2", "9", "5">>

PTooBig == <<"4", "2", "9", "4", "9", "6", "7", "2", "9", "6">>

PRange == <<"8", "0", "-", "8", "1">>

\* The Ports slices a service can start with.
PortLists ==
    { <<Binding(P80, 80, "tcp")>>,
      <<Binding(P180, 80, "tcp"), Binding(PMax, 80, "tcp")>>,
      <<Binding(<<>>, 80, "tcp"), Binding(PRange, 80, "tcp"), Binding(PTooBig, 80, "tcp"),
        Binding(<<"0", "8", "0">>, 53, "udp")>>,
      <<Binding(P80, 53, "tcp"), Binding(P80, 53, "udp")>> }

\* The offset MergeComposeFiles passes to ResolvePortConflicts.
MergeOffset == 100

\* The offsets the callers of ResolvePortConflicts pass: 0 and 100.
Offsets == {U32(0, 0), U32(0, MergeOffset)}

\* Largest number of files handed to MergeComposeFiles.
MaxFiles == 2

\* The slice of the service `name` of document d (0: a directly built set).
SliceOf(d, name) == <<d, name>>

\* types.ServiceConfig: the fields the engine reads or rewrites, and the
\* references it leaves alone. Ports is a sequence of bindings in an input
\* template and a slice of the heap in the state.
Service(ports, dependsOn, links, volumes, build) ==
    [Ports |-> ports, DependsOn |-> dependsOn, Links |-> links, Volumes |-> volumes,
     Build |-> build, Configs |-> <<>>, Secrets |-> <<>>, Networks |-> {}]

Mount(source, target) == [Source |-> source, Target |-> target]

NoResources == [k \in {} |-> "local"]

\* Two services, one depending on and linked to the other, a named volume
\* mounted, a relative build context, one resource of every category.
TplWeb ==
    [Services |->
        (<<"a">> :> [Service(<<Binding(P80, 80, "tcp")>>,
                             (<<"b">> :> "service_healthy"),
                             << <<"b", ":", "d">>, <<"b">> >>,
                             <<Mount(<<"c">>, <<"/", "y">>)>>,
                             << <<".", "/", "a">> >>)
                     EXCEPT !.Configs = << <<"c">> >>, !.Secrets = << <<"d">> >>,
                            !.Networks = {<<"d">>}])
        @@ (<<"b">> :> Service(<<>>, EmptyMap, <<>>, <<>>, <<>>)),
     Volumes  |-> (<<"c">> :> "local"),
     Networks |-> (<<"d">> :> "bridge"),
     Configs  |-> (<<"c">> :> "file1"),
     Secrets  |-> (<<"d">> :> "file1")]

\* One service whose name holds the separator, two published ports, an
\* absolute build context.
TplShift ==
    [Services |->
        (<<"b", "_", "c">> :> Service(<<Binding(P80, 80, "tcp"), Binding(P180, 443, "tcp")>>,
                                      EmptyMap, <<>>, <<>>, << <<"/", "y">> >>)),
     Volumes  |-> NoResources,
     Networks |-> NoResources,
     Configs  |-> NoResources,
     Secrets  |-> NoResources]

\* One service with references to names the document does not define, a
\* mount whose source is the service's own name, a bind mount, an anonymous
\* mount and a mount of the declared volume.
TplExt ==
    [Services |->
        (<<"c">> :> Service(<<Binding(<<"0", "8", "0">>, 53, "udp")>>,
                            (<<"x">> :> "service_started"),
                            << <<"x", ":", "c">>, <<"y">>, <<"x", ":", "c", ":", "d">> >>,
                            <<Mount(<<"c">>, <<"/", "y">>), Mount(<<"/", "y">>, <<"/", "y">>),
                              Mount(<<>>, <<"/", "y">>), Mount(<<"d">>, <<"/", "y">>)>>,
                            <<>>)),
     Volumes  |-> (<<"d">> :> "nfs"),
     Networks |-> (<<"d">> :> "overlay"),
     Configs  |-> NoResources,
     Secrets  |-> NoResources]

\* One service on a port of its own, resources named as in TplWeb with
\* other values.
TplPlain ==
    [Services |->
        (<<"a">> :> Service(<<Binding(P180, 80, "tcp")>>, EmptyMap, <<>>, <<>>,
                            << <<".", ".", "/", "b">> >>)),
     Volumes  |-> (<<"c">> :> "nfs"),
     Networks |-> (<<"d">> :> "host"),
     Configs  |-> (<<"c">> :> "file2"),
     Secrets  |-> (<<"d">> :> "file2")]

Templates == {TplWeb, TplShift, TplExt, TplPlain}

\* Base directories: two with the same last element, one whose last
\* element holds the separator.
Dirs == { <<"/", "x", "/", "a">>, <<"/", "y", "/", "a">>,
          <<"/", "x", "/", "b">>, <<"/", "x", "/", "a", "_", "b">> }

\* ComposeFile: BaseDir and Project (Path is read by error messages only).
Docs == {[BaseDir |-> dir, Project |-> tpl] : dir \in Dirs, tpl \in Templates}

\* The service names of the files of an input.
SlicesOf(input) ==
    UNION {{SliceOf(d, n) : n \in DOMAIN input[d].Project.Services} : d \in 1..Len(input)}

\* The files as NewComposeFile returns them: every service owns its Ports array.
Loaded(input) ==
    [d \in 1..Len(input) |->
        [input[d] EXCEPT !.Project.Services =
            [n \in DOMAIN input[d].Project.Services |->
                [input[d].Project.Services[n] EXCEPT !.Ports = SliceOf(d, n)]]]]

\* ------------------------------------------------------------------ state

VARIABLES
    pc,         \* position: merge_entry, merge_loop, resolve_entry,
                \* resolve_loop, resolve_return, merge_return
    caller,     \* who called ResolvePortConflicts: "merge" or "test"
    files,      \* MergeComposeFiles: the files argument (files[1].Project is baseProject)
    files0,     \* the files as they were loaded
    idx,        \* MergeComposeFiles: the loop index i (1-based)
    ret,        \* MergeComposeFiles: what it returned: none, project, error
    services,   \* ResolvePortConflicts: the services argument
    offset,     \* ResolvePortConflicts: the offset argument
    conflicts,  \* ResolvePortConflicts: conflicts
    usedPorts,  \* ResolvePortConflicts: usedPorts
    todo,       \* ResolvePortConflicts: keys the range loop has not visited
    err,        \* ResolvePortConflicts: the returned error
    heap,       \* Ports backing arrays
    heap0,      \* the backing arrays as the caller built them
    calls,      \* a test on one ComposeFile: the methods it has called, in order
    flags,      \* run: the parsed command line (showHelp, dryRun, composeFiles)
    exec,       \* run: the Executor and what ExecuteCommand has done
    result      \* run: what it returned

vars == <<pc, caller, files, files0, idx, ret, services, offset, conflicts, usedPorts,
          todo, err, heap, heap0, calls, flags, exec, result>>

\* What MergeComposeFiles and ResolvePortConflicts never touch.
cliVars == <<calls, flags, exec, result>>

\* No command line: the engine is called directly.
NoFlags == [showHelp |-> FALSE, dryRun |-> FALSE, composeFiles |-> <<>>]

\* No Executor has been created.
NoExecutor == [created |-> FALSE, dryRun |-> FALSE, check |-> "none", config |-> "none",
               ran |-> FALSE]

\* The CLI and the single-document test are not part of the run.
CliIdle == calls = <<>> /\ flags = NoFlags /\ exec = NoExecutor /\ result = "none"

mergeVars == <<files, files0, idx, ret, caller>>

\* A test calls ResolvePortConflicts(services, offset, logger) on a set it built.
InitResolve ==
    /\ \E names \in SUBSET TestNames :
         /\ services = [n \in names |-> Service(SliceOf(0, n), EmptyMap, <<>>, <<>>, <<>>)]
         /\ heap \in [{SliceOf(0, n) : n \in names} -> PortLists]
    /\ heap0 = heap
    /\ offset \in Offsets
    /\ pc = "resolve_entry"
    /\ caller = "test"
    /\ files = <<>>
    /\ files0 = <<>>
    /\ idx = 0
    /\ ret = "none"
    /\ conflicts = EmptyMap
    /\ usedPorts = {}
    /\ todo = {}
    /\ err = NoError
    /\ CliIdle

\* MergeComposeFiles(files) is called on files NewComposeFile loaded.
Init ==
    /\ files0 \in UNION {[1..n -> Docs] : n \in 0..MaxFiles}
    /\ files = Loaded(files0)
    /\ heap = [sid \in SlicesOf(files0) |-> files0[sid[1]].Project.Services[sid[2]].Ports]
    /\ heap0 = heap
    /\ pc = "merge_entry"
    /\ caller = "merge"
    /\ idx = 0
    /\ ret = "none"
    /\ services = EmptyMap
    /\ offset = U32Zero
    /\ conflicts = EmptyMap
    /\ usedPorts = {}
    /\ todo = {}
    /\ err = NoError
    /\ CliIdle

\* Mutant: the empty sequence yields a project.
MergeEmpty_ReturnsProject ==
    /\ pc = "merge_entry"
    /\ Len(files) = 0
    /\ ret' = "project"
    /\ pc' = "merge_return"
    /\ UNCHANGED <<caller, files, files0, idx, services, offset, conflicts, usedPorts,
                   todo, err, heap, heap0>>
    /\ UNCHANGED cliVars

\* len(files) == 0: the error return.
MergeEmpty ==
    /\ pc = "merge_entry"
    /\ Len(files) = 0
    /\ ret' = "error"
    /\ pc' = "merge_return"
    /\ UNCHANGED <<caller, files, files0, idx, services, offset, conflicts, usedPorts,
                   todo, err, heap, heap0>>
    /\ UNCHANGED cliVars

\* The first file: its project becomes baseProject, prepared in place.
MergeBase ==
    /\ pc = "merge_entry"
    /\ Len(files) > 0
    /\ files' = [files EXCEPT ![1] = PrepareFile(files[1])]
    /\ idx' = 2
    /\ pc' = "merge_loop"
    /\ UNCHANGED <<caller, files0, ret, services, offset, conflicts, usedPorts, todo, err,
                   heap, heap0>>
    /\ UNCHANGED cliVars

\* One iteration of the loop over files[1:]: prepare files[i] in place and
\* copy its maps into baseProject.
MergeFile ==
    /\ pc = "merge_loop"
    /\ idx <= Len(files)
    /\ LET cf == PrepareFile(files[idx])
       IN  files' = [files EXCEPT ![idx] = cf,
                                  ![1].Project = UnionInto(files[1].Project, cf.Project)]
    /\ idx' = idx + 1
    /\ UNCHANGED <<pc, caller, files0, ret, services, offset, conflicts, usedPorts, todo,
                   err, heap, heap0>>
    /\ UNCHANGED cliVars

\* After the loop: ResolvePortConflicts(baseProject.Services, 100, logger).
MergeResolve ==
    /\ pc = "merge_loop"
    /\ idx > Len(files)
    /\ services' = files[1].Project.Services
    /\ offset' = U32(0, MergeOffset)
    /\ pc' = "resolve_entry"
    /\ UNCHANGED <<caller, files, files0, idx, ret, conflicts, usedPorts, todo, err,
                   heap, heap0>>
    /\ UNCHANGED cliVars

\* The result of ResolvePortConflicts decides what MergeComposeFiles returns.
MergeReturn ==
    /\ pc = "resolve_return"
    /\ caller = "merge"
    /\ ret' = IF err # NoError THEN "error" ELSE "project"
    /\ pc' = "merge_return"
    /\ UNCHANGED <<caller, files, files0, idx, services, offset, conflicts, usedPorts,
                   todo, err, heap, heap0>>
    /\ UNCHANGED cliVars

\* ResolvePortConflicts, up to the loop: the first detection.
ResolveDetect ==
    /\ pc = "resolve_entry"
    /\ \E order \in Orders(DOMAIN services) :
         LET found == DetectPortConflicts(services, heap, order)
         IN  /\ conflicts' = found
             /\ IF found = EmptyMap
                THEN pc' = "resolve_return" /\ todo' = {}
                ELSE pc' = "resolve_loop" /\ todo' = DOMAIN services
    /\ usedPorts' = {}
    /\ err' = NoError
    /\ UNCHANGED <<services, offset, heap, heap0, mergeVars>>
    /\ UNCHANGED cliVars

\* Mutant: a failed iteration restores the arrays the call started with.
ResolveStep_RollsBack ==
    /\ pc = "resolve_loop"
    /\ \E name \in todo :
         LET st == ResolveOneService([heap |-> heap, usedPorts |-> usedPorts, err |-> NoError],
                                     services, conflicts, offset, name)
         IN  /\ heap' = IF st.err # NoError THEN heap0 ELSE st.heap
             /\ usedPorts' = st.usedPorts
             /\ err' = st.err
             /\ IF st.err # NoError
                THEN pc' = "resolve_return" /\ todo' = todo
                ELSE pc' = pc /\ todo' = todo \ {name}
    /\ UNCHANGED <<services, offset, conflicts, heap0, mergeVars>>
    /\ UNCHANGED cliVars

\* One iteration of the range loop: the map yields any key not yet visited.
ResolveStep ==
    /\ pc = "resolve_loop"
    /\ \E name \in todo :
         LET st == ResolveOneService([heap |-> heap, usedPorts |-> usedPorts, err |-> NoError],
                                     services, conflicts, offset, name)
         IN  /\ heap' = st.heap
             /\ usedPorts' = st.usedPorts
             /\ err' = st.err
             /\ IF st.err # NoError
                THEN pc' = "resolve_return" /\ todo' = todo
                ELSE pc' = pc /\ todo' = todo \ {name}
    /\ UNCHANGED <<services, offset, conflicts, heap0, mergeVars>>
    /\ UNCHANGED cliVars

\* Mutant: the loop's result is returned without the second detection.
ResolveRecheck_Skipped ==
    /\ pc = "resolve_loop"
    /\ todo = {}
    /\ err' = NoError
    /\ pc' = "resolve_return"
    /\ UNCHANGED <<services, offset, conflicts, usedPorts, todo, heap, heap0, mergeVars>>
    /\ UNCHANGED cliVars

\* After the loop: the second detection decides the result.
ResolveRecheck ==
    /\ pc = "resolve_loop"
    /\ todo = {}
    /\ \E order \in Orders(DOMAIN services) :
         LET remainingConflicts == DetectPortConflicts(services, heap, order)
         IN  err' = IF remainingConflicts # EmptyMap THEN RemainingError ELSE NoError
    /\ pc' = "resolve_return"
    /\ UNCHANGED <<services, offset, conflicts, usedPorts, todo, heap, heap0, mergeVars>>
    /\ UNCHANGED cliVars

NextResolve == ResolveDetect \/ ResolveStep \/ ResolveRecheck

\* ResolvePortConflicts called directly on a service set.
SpecResolve == InitResolve /\ [][NextResolve]_vars

Next ==
    \/ MergeEmpty
    \/ MergeBase
    \/ MergeFile
    \/ MergeResolve
    \/ ResolveDetect
    \/ ResolveStep
    \/ ResolveRecheck
    \/ MergeReturn

\* MergeComposeFiles called on loaded files.
Spec == Init /\ [][Next]_vars

\* ------------------------------------------------------------------ one document

\* Largest number of method calls a test makes on one ComposeFile.
MaxCalls == 2

\* The prefixes a test passes to prefixResourceNames.
TestPrefixes == {<<"a">>, <<"b">>}

\* A test loads one file with NewComposeFile and calls its methods.
InitDocument ==
    /\ files0 \in [1..1 -> Docs]
    /\ files = Loaded(files0)
    /\ heap = [sid \in SlicesOf(files0) |-> files0[sid[1]].Project.Services[sid[2]].Ports]
    /\ heap0 = heap
    /\ pc = "test"
    /\ caller = "test"
    /\ idx = 0
    /\ ret = "none"
    /\ services = EmptyMap
    /\ offset = U32Zero
    /\ conflicts = EmptyMap
    /\ usedPorts = {}
    /\ todo = {}
    /\ err = NoError
    /\ calls = <<>>
    /\ flags = NoFlags
    /\ exec = NoExecutor
    /\ result = "none"

\* cf.adjustBuildContexts()
TestAdjustBuildContexts ==
    /\ pc = "test"
    /\ Len(calls) < MaxCalls
    /\ files' = [files EXCEPT
                    ![1].Project = AdjustBuildContexts(files[1].Project, files[1].BaseDir)]
    /\ calls' = Append(calls, <<"adjustBuildContexts">>)
    /\ UNCHANGED <<pc, caller, files0, idx, ret, services, offset, conflicts, usedPorts,
                   todo, err, heap, heap0, flags, exec, result>>

\* cf.prefixResourceNames(prefix)
TestPrefixResourceNames ==
    /\ pc = "test"
    /\ Len(calls) < MaxCalls
    /\ \E prefix \in TestPrefixes :
         /\ files' = [files EXCEPT
                         ![1].Project = PrefixResourceNames(files[1].Project, prefix)]
         /\ calls' = Append(calls, <<"prefixResourceNames", prefix>>)
    /\ UNCHANGED <<pc, caller, files0, idx, ret, services, offset, conflicts, usedPorts,
                   todo, err, heap, heap0, flags, exec, result>>

NextDocument == TestAdjustBuildContexts \/ TestPrefixResourceNames

\* The methods of one ComposeFile called directly.
SpecDocument == InitDocument /\ [][NextDocument]_vars

\* ------------------------------------------------------------------ command line

\* The documents given on the command line: two directories, a document that
\* merges with itself and one that does not.
RunDocs ==
    {[BaseDir |-> dir, Project |-> tpl] :
        dir \in {<<"/", "x", "/", "a">>, <<"/", "x", "/", "b">>}, tpl \in {TplWeb, TplShift}}

\* A -f argument: a file NewComposeFile loads, or one it fails on.
RunArgs ==
    {[loads |-> TRUE, doc |-> d] : d \in RunDocs}
        \cup {[loads |-> FALSE, doc |-> CHOOSE d \in RunDocs : TRUE]}

\* main has parsed the flags and calls run().
InitRun ==
    /\ flags \in [showHelp : BOOLEAN, dryRun : BOOLEAN,
                  composeFiles : UNION {[1..n -> RunArgs] : n \in 0..MaxFiles}]
    /\ files = <<>>
    /\ files0 = <<>>
    /\ heap = [sid \in {} |-> <<>>]
    /\ heap0 = heap
    /\ pc = "run_entry"
    /\ caller = "merge"
    /\ idx = 0
    /\ ret = "none"
    /\ services = EmptyMap
    /\ offset = U32Zero
    /\ conflicts = EmptyMap
    /\ usedPorts = {}
    /\ todo = {}
    /\ err = NoError
    /\ calls = <<>>
    /\ exec = NoExecutor
    /\ result = "none"

engineVars == <<caller, idx, ret, services, offset, conflicts, usedPorts, todo, err, calls>>

\* run: the help text is printed and nil returned.
RunHelp ==
    /\ pc = "run_entry"
    /\ flags.showHelp
    /\ result' = "ok"
    /\ pc' = "run_return"
    /\ UNCHANGED <<files, files0, heap, heap0, flags, exec, engineVars>>

\* run: len(composeFiles) == 0.
RunNoFiles ==
    /\ pc = "run_entry"
    /\ ~flags.showHelp
    /\ Len(flags.composeFiles) = 0
    /\ result' = "error_no_files"
    /\ pc' = "run_return"
    /\ UNCHANGED <<files, files0, heap, heap0, flags, exec, engineVars>>

\* run: one iteration of the loop over composeFiles: NewComposeFile on the
\* next argument; its failure is returned.
RunLoad ==
    /\ pc = "run_entry"
    /\ ~flags.showHelp
    /\ Len(files) < Len(flags.composeFiles)
    /\ LET arg    == flags.composeFiles[Len(files) + 1]
           given  == Append(files0, arg.doc)
           slices == SlicesOf(given) \ DOMAIN heap
           arrays == [sid \in DOMAIN heap \cup slices |->
                         IF sid \in DOMAIN heap THEN heap[sid]
                         ELSE given[sid[1]].Project.Services[sid[2]].Ports]
       IN  IF arg.loads
           THEN /\ files0' = given
                /\ files' = Append(files, Loaded(given)[Len(given)])
                /\ heap' = arrays
                /\ heap0' = arrays
                /\ UNCHANGED <<pc, result>>
           ELSE /\ result' = "error_load"
                /\ pc' = "run_return"
                /\ UNCHANGED <<files, files0, heap, heap0>>
    /\ UNCHANGED <<flags, exec, engineVars>>

\* run: every file is loaded, MergeComposeFiles(files) is called.
RunMerge ==
    /\ pc = "run_entry"
    /\ ~flags.showHelp
    /\ Len(flags.composeFiles) > 0
    /\ Len(files) = Len(flags.composeFiles)
    /\ pc' = "merge_entry"
    /\ UNCHANGED <<files, files0, heap, heap0, flags, exec, result, engineVars>>

\* Mutant: run goes on to the executor after a failed merge.
RunMergeFailed_Proceeds ==
    /\ pc = "merge_return"
    /\ ret = "error"
    /\ exec' = [NoExecutor EXCEPT !.created = TRUE, !.dryRun = flags.dryRun]
    /\ pc' = "exec_check"
    /\ UNCHANGED <<files, files0, heap, heap0, flags, result, engineVars>>

\* run: MergeComposeFiles returned an error.
RunMergeFailed ==
    /\ pc = "merge_return"
    /\ ret = "error"
    /\ result' = "error_merge"
    /\ pc' = "run_return"
    /\ UNCHANGED <<files, files0, heap, heap0, flags, exec, engineVars>>

\* run: NewExecutor(merged, workingDir, dryRun, logger) and the call of
\* executor.ExecuteCommand(command, args...).
RunExecute ==
    /\ pc = "merge_return"
    /\ ret = "project"
    /\ exec' = [NoExecutor EXCEPT !.created = TRUE, !.dryRun = flags.dryRun]
    /\ pc' = "exec_check"
    /\ UNCHANGED <<files, files0, heap, heap0, flags, result, engineVars>>

\* ExecuteCommand: CheckDockerCompose looks the executable up and asks it
\* for its version; either can fail.
ExecCheck ==
    /\ pc = "exec_check"
    /\ \E found \in {"none", "standalone", "plugin"}, versionOk \in BOOLEAN :
         IF found # "none" /\ versionOk
         THEN /\ exec' = [exec EXCEPT !.check = found]
              /\ pc' = "exec_write"
              /\ UNCHANGED result
         ELSE /\ exec' = [exec EXCEPT !.check = "failed"]
              /\ result' = "error_execute"
              /\ pc' = "run_return"
    /\ UNCHANGED <<files, files0, heap, heap0, flags, engineVars>>

\* Mutant: writeConfig writes the file in a dry run too.
ExecWriteConfig_IgnoresDryRun ==
    /\ pc = "exec_write"
    /\ \E outcome \in {"written", "marshal_failed", "write_failed"} :
         /\ exec' = [exec EXCEPT !.config = outcome]
         /\ IF outcome = "written"
            THEN pc' = "exec_command" /\ UNCHANGED result
            ELSE result' = "error_execute" /\ pc' = "run_return"
    /\ UNCHANGED <<files, files0, heap, heap0, flags, engineVars>>

\* ExecuteCommand: writeConfig. In a dry run only the path is returned;
\* otherwise the project is marshalled and docker-compose.merged.yml is
\* written to the working directory, and either step can fail.
ExecWriteConfig ==
    /\ pc = "exec_write"
    /\ IF exec.dryRun
       THEN /\ exec' = [exec EXCEPT !.config = "placeholder"]
            /\ pc' = "exec_command"
            /\ UNCHANGED result
       ELSE \E outcome \in {"written", "marshal_failed", "write_failed"} :
              /\ exec' = [exec EXCEPT !.config = outcome]
              /\ IF outcome = "written"
                 THEN pc' = "exec_command" /\ UNCHANGED result
                 ELSE result' = "error_execute" /\ pc' = "run_return"
    /\ UNCHANGED <<files, files0, heap, heap0, flags, engineVars>>

\* ExecuteCommand: NewDockerComposeCmd finds the executable the check found
\* (the PATH is taken not to change during one command), then a dry run
\* logs and returns nil, and otherwise cmd.Run decides the result.
ExecCommand ==
    /\ pc = "exec_command"
    /\ IF exec.check \notin {"standalone", "plugin"}
       THEN /\ result' = "error_execute"
            /\ UNCHANGED exec
       ELSE IF exec.dryRun
       THEN /\ result' = "ok"
            /\ UNCHANGED exec
       ELSE \E ok \in BOOLEAN :
              /\ exec' = [exec EXCEPT !.ran = TRUE]
              /\ result' = IF ok THEN "ok" ELSE "error_execute"
    /\ pc' = "run_return"
    /\ UNCHANGED <<files, files0, heap, heap0, flags, engineVars>>

NextRun ==
    \/ RunHelp
    \/ RunNoFiles
    \/ RunLoad
    \/ RunMerge
    \/ MergeBase
    \/ MergeFile
    \/ MergeResolve
    \/ ResolveDetect
    \/ ResolveStep
    \/ ResolveRecheck
    \/ MergeReturn
    \/ RunMergeFailed
    \/ RunExecute
    \/ ExecCheck
    \/ ExecWriteConfig
    \/ ExecCommand

\* run() of the command line, from the parsed flags to its return.
SpecRun == InitRun /\ [][NextRun]_vars
\* ------------------------------------------------------------------ properties

Returned == pc = "resolve_return"

Succeeded == Returned /\ err = NoError

\* The bindings of a service set: <<name, index>>.
BindingsOf(svcs, h) ==
    UNION {{<<n, i>> : i \in 1..Len(h[svcs[n].Ports])} : n \in DOMAIN svcs}

PublishedOf(svcs, h, b) == h[svcs[b[1]].Ports][b[2]].Published

\* The bindings whose host port parses to p.
PublishersOf(svcs, h, p) ==
    {b \in BindingsOf(svcs, h) :
        LET r == ParseUint(PublishedOf(svcs, h, b)) IN r.ok /\ r.val = p}

\* The host ports some binding publishes.
HostPorts(svcs, h) ==
    {ParseUint(PublishedOf(svcs, h, b)).val :
        b \in {c \in BindingsOf(svcs, h) : ParseUint(PublishedOf(svcs, h, c)).ok}}

\* C1: whenever ResolvePortConflicts returns success, no parseable host port
\* is published by more than one binding of the service set, and
\* DetectPortConflicts on the result is empty in every iteration order.
C1_NoDuplicateAfterSuccess ==
    Succeeded =>
        /\ \A p \in HostPorts(services, heap) :
              Cardinality(PublishersOf(services, heap, p)) = 1
        /\ \A order \in Orders(DOMAIN services) :
              DetectPortConflicts(services, heap, order) = EmptyMap

\* C1 witness: a successful call that had conflicts to resolve.
C1_Witness == Succeeded /\ conflicts # EmptyMap

\* Position of name n in the sorted list of the names S.
Rank(S, n) == Cardinality({m \in S : StrLess(m, n)})

\* Ports published by one binding each of two or more distinct services.
SharedPorts(svcs, h) ==
    {p \in HostPorts(svcs, h) :
        LET pub == PublishersOf(svcs, h, p)
        IN  /\ Cardinality(pub) >= 2
            /\ \A b, c \in pub : b[1] = c[1] => b = c}

\* p + off * i as an integer: the high half is not reduced modulo 2^16.
ExactPort(p, off, i) ==
    LET lo == p[2] + off[2] * i
    IN  <<p[1] + off[1] * i + (lo \div Half), lo % Half>>

\* C2 as stated: on success the service at sorted position i of the
\* publishers of a shared port p ends with the host port p + offset*i.
C2_Original ==
    Succeeded =>
        \A p \in SharedPorts(services, heap0) :
            LET pub == PublishersOf(services, heap0, p)
            IN  \A b \in pub :
                    LET r == ParseUint(PublishedOf(services, heap, b))
                    IN  /\ r.ok
                        /\ r.val = ExactPort(p, offset, Rank({c[1] : c \in pub}, b[1]))

\* C2 amended: on success the service at sorted position i of the publishers
\* of a shared port p ends with the host port (p + offset*i) mod 2^32,
\* written in decimal; the first service keeps p.
C2_SortedPositionShift ==
    Succeeded =>
        \A p \in SharedPorts(services, heap0) :
            LET pub == PublishersOf(services, heap0, p)
            IN  \A b \in pub :
                    LET i == Rank({c[1] : c \in pub}, b[1])
                    IN  /\ PublishedOf(services, heap, b)
                             = FormatUint(U32Add(p, U32MulIndex(offset, i)))
                        /\ i = 0 => ParseUint(PublishedOf(services, heap, b)).val = p

\* C2 witness: success with a port shared by three services and a non-zero offset.
C2_Witness ==
    /\ Succeeded
    /\ offset # U32Zero
    /\ \E p \in SharedPorts(services, heap0) :
          Cardinality(PublishersOf(services, heap0, p)) >= 3

\* The names of S in ascending order.
RECURSIVE SortedOrder(_)
SortedOrder(S) ==
    IF S = {} THEN <<>>
    ELSE LET least == CHOOSE n \in S : \A m \in S \ {n} : StrLess(n, m)
         IN  <<least>> \o SortedOrder(S \ {least})

Reverse(seq) == [k \in 1..Len(seq) |-> seq[Len(seq) + 1 - k]]

\* What a caller sees: failure, or success with the resulting arrays.
Outcome(e, h) == IF e = NoError THEN <<"ok", h>> ELSE <<"failed">>

Token(d) == Base(files0[d].BaseDir)

\* token_name, written out.
Namespaced(token, name) == token \o <<"_">> \o name

\* baseProject, the project MergeComposeFiles returns.
Merged == files[1].Project

MergeSucceeded == pc = "merge_return" /\ ret = "project"

\* The union loop has ended (files is not empty).
Unioned == pc # "merge_entry" /\ Len(files) > 0 /\ idx > Len(files)

\* files[d] is as prefixResourceNames left it: document 1 before anything is
\* copied into it, a later document once the loop has passed it.
Prepared(d) ==
    /\ d \in 1..Len(files)
    /\ \/ d = 1 /\ pc = "merge_loop" /\ idx = 2
       \/ d > 1 /\ idx > d

\* The bindings of the input: <<d, name, index>>.
InputBindings ==
    UNION {{<<sid[1], sid[2], i>> : i \in 1..Len(heap0[sid])} : sid \in DOMAIN heap0}

\* The input bindings whose host port parses to p.
InputPublishers(p) ==
    {b \in InputBindings :
        LET r == ParseUint(heap0[SliceOf(b[1], b[2])][b[3]].Published)
        IN  r.ok /\ r.val = p}

FinalPort(b) == ParseUint(heap[SliceOf(b[1], b[2])][b[3]].Published)

\* C4 as stated (README): when two documents publish the same host port, the
\* service of the first document keeps the port and the service of the
\* second is moved to the port + 100.
C4_FirstFileKeepsPort ==
    (MergeSucceeded /\ Len(files0) = 2) =>
        \A b1, b2 \in InputBindings :
            LET r1 == ParseUint(heap0[SliceOf(b1[1], b1[2])][b1[3]].Published)
                r2 == ParseUint(heap0[SliceOf(b2[1], b2[2])][b2[3]].Published)
            IN  ( /\ b1[1] = 1 /\ b2[1] = 2
                  /\ r1.ok /\ r2.ok /\ r1.val = r2.val
                  /\ InputPublishers(r1.val) = {b1, b2}
                  /\ Namespaced(Token(1), b1[2]) # Namespaced(Token(2), b2[2]) )
                => /\ FinalPort(b1).val = r1.val
                   /\ FinalPort(b2).val = U32Add(r1.val, U32(0, 100))

\* C5 as stated: for two documents with distinct base-directory names the
\* merged project has as many services as the two documents together.
C5_DisjointNamespacing ==
    (Unioned /\ Len(files0) = 2 /\ Token(1) # Token(2)) =>
        Cardinality(DOMAIN Merged.Services)
            = Cardinality(DOMAIN files0[1].Project.Services)
              + Cardinality(DOMAIN files0[2].Project.Services)

NamespacedCategories == {"Services", "Volumes", "Configs", "Secrets"}

SourceDoc(service) == service.Ports[1]

SourceService(service) == files0[service.Ports[1]].Project.Services[service.Ports[2]]

\* C7: for every merged service and every dependsOn entry of its source
\* whose target is a service of the same document, the merged service has
\* the entry token_target, with the same condition, and token_target is a
\* service of the merged project.
C7_DependsOnIntegrity ==
    MergeSucceeded =>
        \A k \in DOMAIN Merged.Services :
            LET service == Merged.Services[k]
                d       == SourceDoc(service)
                source  == SourceService(service)
            IN  \A target \in DOMAIN source.DependsOn :
                    target \in DOMAIN files0[d].Project.Services =>
                        LET key == Namespaced(Token(d), target)
                        IN  /\ key \in DOMAIN service.DependsOn
                            /\ service.DependsOn[key] = source.DependsOn[target]
                            /\ key \in DOMAIN Merged.Services

\* C7 witness: a successful merge of two files with a dependency inside the
\* second one.
C7_Witness ==
    /\ MergeSucceeded
    /\ \E k \in DOMAIN Merged.Services :
          /\ SourceDoc(Merged.Services[k]) = 2
          /\ \E target \in DOMAIN SourceService(Merged.Services[k]).DependsOn :
                target \in DOMAIN files0[2].Project.Services

\* The names prefixResourceNames puts in its translation table for document d.
TranslationTable(d) ==
    UNION {DOMAIN files0[d].Project[cat] : cat \in NamespacedCategories}

\* The positions of ":" in a links entry.
Colons(link) == {i \in 1..Len(link) : link[i] = ":"}

\* The target of a links entry: the text before the first ":".
LinkTarget(link) ==
    IF Colons(link) = {} THEN link
    ELSE SubSeq(link, 1, (CHOOSE i \in Colons(link) : \A j \in Colons(link) : i <= j) - 1)

\* C8 as stated: a dependsOn key or a links target that is not in the
\* translation table of its document is left unchanged by prefixResourceNames.
C8_ExternalReferenceUnchanged ==
    \A d \in 1..Len(files) :
        Prepared(d) =>
            \A n \in DOMAIN files0[d].Project.Services :
                LET source  == files0[d].Project.Services[n]
                    service == files[d].Project.Services[Namespaced(Token(d), n)]
                IN  /\ \A target \in DOMAIN source.DependsOn :
                          target \notin TranslationTable(d) =>
                              /\ target \in DOMAIN service.DependsOn
                              /\ service.DependsOn[target] = source.DependsOn[target]
                    /\ \A i \in 1..Len(source.Links) :
                          LinkTarget(source.Links[i]) \notin TranslationTable(d) =>
                              service.Links[i] = source.Links[i]

\* C9: prefixResourceNames keeps the number and order of the links entries;
\* target:alias becomes token_target:alias and a bare entry becomes token_entry.
C9_LinksRewritten ==
    \A d \in 1..Len(files) :
        Prepared(d) =>
            \A n \in DOMAIN files0[d].Project.Services :
                LET source  == files0[d].Project.Services[n]
                    service == files[d].Project.Services[Namespaced(Token(d), n)]
                IN  /\ Len(service.Links) = Len(source.Links)
                    /\ \A i \in 1..Len(source.Links) :
                          LET link == source.Links[i]
                          IN  /\ Cardinality(Colons(link)) = 1 =>
                                    LET c == CHOOSE j \in Colons(link) : TRUE
                                    IN  service.Links[i]
                                          = Namespaced(Token(d), SubSeq(link, 1, c - 1))
                                            \o <<":">> \o SubSeq(link, c + 1, Len(link))
                              /\ Colons(link) = {} =>
                                    service.Links[i] = Namespaced(Token(d), link)

\* C9 witness: a prepared document with a service that has an aliased and a
\* bare links entry.
C9_Witness ==
    \E d \in 1..Len(files) :
        /\ Prepared(d)
        /\ \E n \in DOMAIN files0[d].Project.Services :
              LET links == files0[d].Project.Services[n].Links
              IN  /\ \E i \in 1..Len(links) : Cardinality(Colons(links[i])) = 1
                  /\ \E i \in 1..Len(links) : Colons(links[i]) = {}

\* C10 as stated: after prefixResourceNames a mount source that names a
\* volume of the document is token_volume, a key of the document's volume
\* map, and a mount source that names no volume of the document is unchanged.
C10_MountSources ==
    \A d \in 1..Len(files) :
        Prepared(d) =>
            \A n \in DOMAIN files0[d].Project.Services :
                LET source  == files0[d].Project.Services[n]
                    service == files[d].Project.Services[Namespaced(Token(d), n)]
                IN  /\ Len(service.Volumes) = Len(source.Volumes)
                    /\ \A i \in 1..Len(source.Volumes) :
                          IF source.Volumes[i].Source \in DOMAIN files0[d].Project.Volumes
                          THEN /\ service.Volumes[i].Source
                                    = Namespaced(Token(d), source.Volumes[i].Source)
                               /\ service.Volumes[i].Source \in DOMAIN files[d].Project.Volumes
                          ELSE service.Volumes[i].Source = source.Volumes[i].Source

LastDefining(n) ==
    CHOOSE d \in 1..Len(files0) :
        /\ n \in DOMAIN files0[d].Project.Networks
        /\ \A e \in (d + 1)..Len(files0) : n \notin DOMAIN files0[e].Project.Networks

\* C12: prefixResourceNames leaves the network map of the document and the
\* network references of its services as they were, and once the documents
\* are united the merged project has one entry for every network name some
\* document defines, under the unprefixed name, holding the definition of
\* the last document that defines it.
C12_NetworksShared ==
    /\ \A d \in 1..Len(files) :
          Prepared(d) =>
              /\ files[d].Project.Networks = files0[d].Project.Networks
              /\ \A n \in DOMAIN files0[d].Project.Services :
                    files[d].Project.Services[Namespaced(Token(d), n)].Networks
                        = files0[d].Project.Services[n].Networks
    /\ Unioned =>
          /\ DOMAIN Merged.Networks
                = UNION {DOMAIN files0[d].Project.Networks : d \in 1..Len(files0)}
          /\ \A n \in DOMAIN Merged.Networks :
                Merged.Networks[n] = files0[LastDefining(n)].Project.Networks[n]

\* C12 witness: two united documents define the same network differently,
\* and a service of the first one refers to it.
C12_Witness ==
    /\ Unioned
    /\ Len(files0) = 2
    /\ \E n \in DOMAIN files0[1].Project.Networks \cap DOMAIN files0[2].Project.Networks :
          /\ files0[1].Project.Networks[n] # files0[2].Project.Networks[n]
          /\ \E k \in DOMAIN files0[1].Project.Services :
                n \in files0[1].Project.Services[k].Networks

\* C13: MergeComposeFiles on an empty sequence returns the error and no
\* project; it reaches neither the preparation of a file nor
\* ResolvePortConflicts, and nothing it could have written has changed.
C13_EmptyInputFails ==
    Len(files0) = 0 =>
        /\ pc \in {"merge_entry", "merge_return"}
        /\ pc = "merge_return" => ret = "error"
        /\ pc = "merge_entry" => ret = "none"
        /\ files = files0
        /\ heap = heap0
        /\ idx = 0
        /\ services = EmptyMap
        /\ conflicts = EmptyMap
        /\ usedPorts = {}
        /\ err = NoError

\* C13 witness: the call on the empty sequence has returned.
C13_Witness == Len(files0) = 0 /\ pc = "merge_return"

\* ------------------------------------------------------------------ resolver properties

\* The names of the services that publish the host port p.
PublishingServices(svcs, h, p) == {b[1] : b \in PublishersOf(svcs, h, p)}

\* C14 as stated: when no host port is published by more than one service,
\* ResolvePortConflicts returns success and every binding is as it was.
C14_ConflictFreePassthrough ==
    ( /\ Returned
      /\ \A p \in HostPorts(services, heap0) :
            Cardinality(PublishingServices(services, heap0, p)) <= 1 )
    => /\ err = NoError
       /\ heap = heap0

\* The host ports two or more distinct services publish.
PortsOfSeveralServices(svcs, h) ==
    {p \in HostPorts(svcs, h) : Cardinality(PublishingServices(svcs, h, p)) >= 2}

\* C17 as stated: DetectPortConflicts returns exactly the host ports that
\* two or more distinct services publish, each with the sorted list of those
\* services' names.
C17_DetectExact ==
    pc \in {"resolve_loop", "resolve_return"} =>
        conflicts = [p \in PortsOfSeveralServices(services, heap0) |->
                        SortedOrder(PublishingServices(services, heap0, p))]

\* Decimal text of the largest uint32.
MaxUint32Text == <<"4", "2", "9", "4", "9", "6", "7", "2", "9", "5">>

\* s without its leading zeros.
StripZeros(s) ==
    SubSeq(s, Cardinality({i \in 1..Len(s) : \A j \in 1..i : s[j] = "0"}) + 1, Len(s))

\* s is an unsigned decimal integer that fits 32 bits.
IsHostPortNumber(s) ==
    /\ s # <<>>
    /\ \A i \in 1..Len(s) : s[i] \in {"0", "1", "2", "3", "4", "5", "6", "7", "8", "9"}
    /\ \/ Len(StripZeros(s)) < 10
       \/ Len(StripZeros(s)) = 10 /\ ~StrLess(MaxUint32Text, StripZeros(s))

\* The bindings with an empty host port or one that is not such a number.
SkippedBindings(svcs, h) ==
    {b \in BindingsOf(svcs, h) : ~IsHostPortNumber(PublishedOf(svcs, h, b))}

\* The arrays without those bindings.
WithoutSkipped(h) ==
    [sid \in DOMAIN h |-> SelectSeq(h[sid], LAMBDA port : IsHostPortNumber(port.Published))]

\* C18: a binding whose host port is empty or not an unsigned decimal integer
\* of 32 bits is never rewritten, and the call behaves as if the binding were
\* not there: the conflicts detected, the success or failure of
\* ResolvePortConflicts and the host ports of the other bindings are those of
\* the service set without these bindings.
C18_UnparseableBindingsIgnored ==
    LET clean == WithoutSkipped(heap0)
        run   == RunResolve(services, clean, offset, SortedOrder(DOMAIN services))
    IN  /\ \A b \in SkippedBindings(services, heap0) :
              heap[services[b[1]].Ports][b[2]] = heap0[services[b[1]].Ports][b[2]]
        /\ pc \in {"resolve_loop", "resolve_return"} =>
              conflicts = DetectPortConflicts(services, clean, SortedOrder(DOMAIN services))
        /\ Returned =>
              /\ (err = NoError) <=> (run.err = NoError)
              /\ err = NoError => WithoutSkipped(heap) = run.heap

\* C18 witness: a successful call that rewrote a binding of a set that holds
\* bindings with an empty, a non-numeric and an out-of-range host port.
C18_Witness ==
    /\ Succeeded
    /\ heap # heap0
    /\ \E b, c, e \in SkippedBindings(services, heap0) :
          /\ PublishedOf(services, heap0, b) = <<>>
          /\ PublishedOf(services, heap0, c) # <<>>
          /\ \E i \in 1..Len(PublishedOf(services, heap0, c)) :
                ~IsDigit(PublishedOf(services, heap0, c)[i])
          /\ PublishedOf(services, heap0, e) # <<>>
          /\ \A i \in 1..Len(PublishedOf(services, heap0, e)) :
                IsDigit(PublishedOf(services, heap0, e)[i])

\* Position of the first occurrence of name in a conflict list (0-based).
PositionIn(list, name) ==
    Cardinality({j \in 1..Len(list) : \A l \in 1..j : list[l] # name})

\* The port the strategy computes for binding b of the original set, which
\* publishes the conflicting port p.
ShiftedPort(b, p) == U32Add(p, U32MulIndex(offset, PositionIn(conflicts[p], b[1])))

\* The bindings of the original set that publish a port in conflict.
ConflictingBindings ==
    {b \in BindingsOf(services, heap0) :
        LET r == ParseUint(PublishedOf(services, heap0, b))
        IN  r.ok /\ r.val \in DOMAIN conflicts}

OriginalPort(b) == ParseUint(PublishedOf(services, heap0, b)).val

\* ResolvePortConflicts has returned the error that names a port: the port
\* was claimed earlier in the pass, and the call stopped at a conflicting
\* binding whose computed port it is. That binding, the bindings after it in
\* its service and the services not yet visited are as the caller built them.
FailsAtOnce ==
    (Returned /\ err.kind = "in_use") =>
        /\ err.port \in usedPorts
        /\ \E b \in ConflictingBindings :
              /\ b[1] \in todo
              /\ ShiftedPort(b, OriginalPort(b)) = err.port
              /\ \A c \in BindingsOf(services, heap0) :
                    ( \/ c[1] = b[1] /\ c[2] >= b[2]
                      \/ c[1] \in todo \ {b[1]} )
                    => PublishedOf(services, heap, c) = PublishedOf(services, heap0, c)

\* C15 as stated: a computed port already claimed in the pass ends the call
\* at once with the error naming it, and with offset 0 the call fails naming
\* p for every host port p that two or more services publish.
C15_Original ==
    /\ FailsAtOnce
    /\ (Returned /\ offset = U32Zero) =>
          \A p \in PortsOfSeveralServices(services, heap0) : err = InUseError(p)

\* C15 amended: a computed port already claimed in the pass ends the call at
\* once with the error naming it, and with offset 0 and a host port that two
\* or more services publish the call always fails with that error, naming a
\* conflicting port: p itself when p is the only port in conflict.
C15_FixedStrategy ==
    /\ FailsAtOnce
    /\ (Returned /\ offset = U32Zero /\ PortsOfSeveralServices(services, heap0) # {}) =>
          /\ err.kind = "in_use"
          /\ err.port \in DOMAIN conflicts
          /\ \A p \in PortsOfSeveralServices(services, heap0) :
                DOMAIN conflicts = {p} => err = InUseError(p)

\* C15 witness: offset 0, two services on one port and no other conflict,
\* and the call has failed.
C15_Witness ==
    /\ Returned
    /\ offset = U32Zero
    /\ err.kind = "in_use"
    /\ \E p \in PortsOfSeveralServices(services, heap0) : DOMAIN conflicts = {p}

\* Binding b is shifted onto the host port of binding c, which is outside
\* every conflict.
LandsOn(b, c) ==
    /\ b \in ConflictingBindings
    /\ c \in BindingsOf(services, heap0) \ ConflictingBindings
    /\ ParseUint(PublishedOf(services, heap0, c)).ok
    /\ ShiftedPort(b, OriginalPort(b)) = OriginalPort(c)

\* C16: usedPorts holds only ports that a shifted conflicting binding now
\* publishes, never a port for being published outside the conflicts; so
\* when a shift lands on the port of a binding outside every conflict the
\* call fails, that binding is kept as it was, and a pass that ran to its
\* end fails in the closing detection.
C16_LandingOnPublishedPortFails ==
    LET shifting == ConflictingBindings
        outside  == {c \in BindingsOf(services, heap0) \ shifting :
                        ParseUint(PublishedOf(services, heap0, c)).ok}
        targets  == {ShiftedPort(b, OriginalPort(b)) : b \in shifting}
    IN  /\ pc \in {"resolve_loop", "resolve_return"} =>
              \A u \in usedPorts :
                  \E b \in shifting :
                      /\ ShiftedPort(b, OriginalPort(b)) = u
                      /\ PublishedOf(services, heap, b) = FormatUint(u)
        /\ Returned =>
              \A c \in outside :
                  OriginalPort(c) \in targets =>
                      /\ err # NoError
                      /\ PublishedOf(services, heap, c) = PublishedOf(services, heap0, c)
                      /\ todo = {} => err = RemainingError

\* C16 witness: two services on one port, a third service alone on the port
\* the second is shifted to, and the call has failed after the whole pass.
C16_Witness ==
    /\ Returned
    /\ todo = {}
    /\ err = RemainingError
    /\ \E b, c \in BindingsOf(services, heap0) :
          /\ LandsOn(b, c)
          /\ b[1] # c[1]
          /\ Cardinality(PublishingServices(services, heap0, OriginalPort(b))) = 2

\* ------------------------------------------------------------------ caller's view of a merge

\* The keys document d has in a category once it is namespaced.
OwnKeys(d, cat) ==
    IF cat = "Networks" THEN DOMAIN files0[d].Project.Networks
    ELSE {Namespaced(Token(d), n) : n \in DOMAIN files0[d].Project[cat]}

\* The Ports arrays of document d are as they were loaded.
PortsUntouched(d) ==
    \A n \in DOMAIN files0[d].Project.Services : heap[SliceOf(d, n)] = heap0[SliceOf(d, n)]

\* C19 as stated: MergeComposeFiles returns a project and no error or an
\* error and no project, the error exactly when the input is empty or
\* ResolvePortConflicts failed, and after a failure the caller can see no
\* partially merged project: the project of the first file, which the caller
\* still holds, has no service of another file and no rewritten host port.
C19_MergeAtomic ==
    pc = "merge_return" =>
        /\ ret \in {"project", "error"}
        /\ ret = "error" <=> (Len(files0) = 0 \/ err # NoError)
        /\ (ret = "error" /\ Len(files0) > 0) =>
              /\ DOMAIN files[1].Project.Services \subseteq OwnKeys(1, "Services")
              /\ \A d \in 1..Len(files0) : PortsUntouched(d)

\* C20 as stated: a document that has been prepared holds, in every
\* category, only its own resources under their namespaced names, and its
\* port bindings are as loaded: the union and ResolvePortConflicts change no
\* input document.
C20_UnionReadsOnly ==
    \A d \in 1..Len(files) :
        (pc # "merge_entry" /\ idx > d) =>
            /\ \A cat \in NamespacedCategories \cup {"Networks"} :
                  DOMAIN files[d].Project[cat] = OwnKeys(d, cat)
            /\ PortsUntouched(d)

\* ------------------------------------------------------------------ key collisions

\* The last input document that has the key k in the category cat.
LastWith(cat, k) ==
    CHOOSE d \in 1..Len(files0) :
        /\ k \in OwnKeys(d, cat)
        /\ \A e \in (d + 1)..Len(files0) : k \notin OwnKeys(e, cat)

\* The name of document d that is written under the key k.
LocalName(d, cat, k) ==
    IF cat = "Networks" THEN k
    ELSE CHOOSE n \in DOMAIN files0[d].Project[cat] : Namespaced(Token(d), n) = k

\* Two documents with the same base-directory name define the same name in cat.
SameTokenCollision(cat) ==
    \E d, e \in 1..Len(files0) :
        /\ d < e
        /\ Token(d) = Token(e)
        /\ DOMAIN files0[d].Project[cat] \cap DOMAIN files0[e].Project[cat] # {}

\* C21: a key that several documents produce is no error, and once the
\* documents are united the entry under the key is the one of the last
\* document that produces it, in every category: for a service the service
\* copied from that document, for the other categories that document's
\* definition. The only failure of a merge of one or more files is the one
\* ResolvePortConflicts reports.
C21_LastWriteWins ==
    /\ Unioned =>
          /\ \A k \in DOMAIN Merged.Services :
                LET d == LastWith("Services", k)
                IN  /\ SourceDoc(Merged.Services[k]) = d
                    /\ Merged.Services[k].Ports = SliceOf(d, LocalName(d, "Services", k))
          /\ \A cat \in {"Volumes", "Networks", "Configs", "Secrets"} :
                \A k \in DOMAIN Merged[cat] :
                    LET d == LastWith(cat, k)
                    IN  Merged[cat][k] = files0[d].Project[cat][LocalName(d, cat, k)]
    /\ (pc = "merge_return" /\ ret = "error" /\ Len(files0) > 0) => err # NoError

\* C21 witness: a successful merge of two documents with the same
\* base-directory name that define the same name in every category with
\* different definitions.
C21_Witness ==
    /\ MergeSucceeded
    /\ Len(files0) = 2
    /\ files0[1].Project # files0[2].Project
    /\ \A cat \in NamespacedCategories \cup {"Networks"} : SameTokenCollision(cat)

\* ------------------------------------------------------------------ one document: properties

\* The calls made so far that are adjustBuildContexts.
AdjustCalls == {i \in 1..Len(calls) : calls[i][1] = "adjustBuildContexts"}

\* The key the service loaded as n has after the prefixResourceNames calls made.
RECURSIVE KeyAfter(_, _)
KeyAfter(n, k) ==
    IF k = 0 THEN n
    ELSE IF calls[k][1] = "prefixResourceNames"
         THEN Namespaced(calls[k][2], KeyAfter(n, k - 1))
         ELSE KeyAfter(n, k - 1)

\* C22: once adjustBuildContexts has been called, however often and whatever
\* else was called, every service that had a relative build context has the
\* join of the base directory and that context, every service that had an
\* absolute build context has it unchanged, and a service without a build
\* section has none; before the first call every build section is as loaded.
C22_BuildContextsResolved ==
    \A n \in DOMAIN files0[1].Project.Services :
        LET source  == files0[1].Project.Services[n]
            service == files[1].Project.Services[KeyAfter(n, Len(calls))]
        IN  IF AdjustCalls = {} \/ source.Build = <<>> THEN service.Build = source.Build
            ELSE IF source.Build[1] # <<>> /\ Head(source.Build[1]) = "/"
            THEN service.Build = source.Build
            ELSE service.Build = <<Join(files0[1].BaseDir, source.Build[1])>>

\* C22 witness: adjustBuildContexts was called twice on a document with a
\* relative build context.
C22_Witness ==
    /\ Cardinality(AdjustCalls) = 2
    /\ \E n \in DOMAIN files0[1].Project.Services :
          LET source == files0[1].Project.Services[n]
          IN  source.Build # <<>> /\ Head(source.Build[1]) # "/"

\* The calls made so far that are prefixResourceNames.
PrefixCalls == {i \in 1..Len(calls) : calls[i][1] = "prefixResourceNames"}

\* C30: after the prefixResourceNames calls made on a document, every
\* service, volume, config and secret map has its loaded names, each under
\* the key the calls give it (token_name after one call), one key for each
\* name, so the map keeps its size; the entry under the key is the loaded one
\* (for a service: its port bindings, and its dependsOn conditions under the
\* renamed targets). Two calls with the same token give token_token_name for
\* the keys and the dependsOn targets.
C30_InjectiveRename ==
    /\ \A cat \in NamespacedCategories :
          LET loaded == files0[1].Project[cat]
              now    == files[1].Project[cat]
          IN  /\ DOMAIN now = {KeyAfter(n, Len(calls)) : n \in DOMAIN loaded}
              /\ Cardinality(DOMAIN now) = Cardinality(DOMAIN loaded)
              /\ cat # "Services" =>
                    \A n \in DOMAIN loaded : now[KeyAfter(n, Len(calls))] = loaded[n]
    /\ \A n \in DOMAIN files0[1].Project.Services :
          LET source  == files0[1].Project.Services[n]
              service == files[1].Project.Services[KeyAfter(n, Len(calls))]
          IN  /\ service.Ports = SliceOf(1, n)
              /\ DOMAIN service.DependsOn
                    = {KeyAfter(target, Len(calls)) : target \in DOMAIN source.DependsOn}
              /\ \A target \in DOMAIN source.DependsOn :
                    service.DependsOn[KeyAfter(target, Len(calls))] = source.DependsOn[target]
    /\ \A token \in TestPrefixes :
          calls = << <<"prefixResourceNames", token>>, <<"prefixResourceNames", token>> >> =>
              /\ DOMAIN files[1].Project.Services
                    = {token \o <<"_">> \o token \o <<"_">> \o n :
                          n \in DOMAIN files0[1].Project.Services}
              /\ DOMAIN files[1].Project.Services
                    # {token \o <<"_">> \o n : n \in DOMAIN files0[1].Project.Services}

\* C30 witness: prefixResourceNames was called twice with the same token on
\* a document with a dependency and a resource of every category.
C30_Witness ==
    /\ \E token \in TestPrefixes :
          calls = << <<"prefixResourceNames", token>>, <<"prefixResourceNames", token>> >>
    /\ \A cat \in NamespacedCategories : DOMAIN files0[1].Project[cat] # {}
    /\ \E n \in DOMAIN files0[1].Project.Services :
          DOMAIN files0[1].Project.Services[n].DependsOn # {}

\* ------------------------------------------------------------------ properties of the command line

RunReturned == pc = "run_return"

CheckPassed == exec.check \in {"standalone", "plugin"}

ErrorResults == {"error_no_files", "error_load", "error_merge", "error_execute"}

NoFileGiven == Len(flags.composeFiles) = 0

LoadFails == \E i \in 1..Len(flags.composeFiles) : ~flags.composeFiles[i].loads

MergeFailed == ret = "error"

\* The files are loaded in the order given, and MergeComposeFiles is
\* entered only with all of them.
LoadedInOrder ==
    /\ Len(files0) <= Len(flags.composeFiles)
    /\ \A i \in 1..Len(files0) :
         flags.composeFiles[i].loads /\ files0[i] = flags.composeFiles[i].doc
    /\ (pc \notin {"run_entry", "run_return"} \/ ret # "none" \/ exec.created) =>
         /\ Len(files0) = Len(flags.composeFiles)
         /\ ~LoadFails

\* No executor exists, nothing is written and nothing is run.
NothingExecuted ==
    /\ ~exec.created
    /\ exec.check = "none"
    /\ exec.config = "none"
    /\ ~exec.ran

\* C24 as stated: with no compose file, with a file that fails to load or
\* with a failed merge, run returns an error.
C24_Original ==
    /\ (NoFileGiven \/ LoadFails \/ MergeFailed) =>
         /\ NothingExecuted
         /\ RunReturned => result \in ErrorResults
    /\ LoadedInOrder

\* C24: with no compose file, with a file that fails to load or with a
\* failed merge, the executor is never created or invoked, and run
\* returns an error unless the help flag is set, in which case it prints the
\* help text and returns nil. The files are loaded in the order given and
\* the merge starts only after all of them loaded.
C24_ErrorsStopBeforeExecutor ==
    /\ (NoFileGiven \/ LoadFails \/ MergeFailed) =>
         /\ NothingExecuted
         /\ RunReturned =>
              IF flags.showHelp THEN result = "ok"
              ELSE IF NoFileGiven THEN result = "error_no_files"
              ELSE IF MergeFailed THEN result = "error_merge"
              ELSE result = "error_load"
    /\ LoadedInOrder

\* Two files are loaded and their merge fails.
C24_Witness ==
    /\ RunReturned
    /\ Len(files0) = 2
    /\ MergeFailed
    /\ result = "error_merge"
    /\ NothingExecuted

\* ------------------------------------------------------------------ what the resolver leaves alone

\* The binding at index i of the slice sid had, before the call, a host port
\* of the conflict set the first detection found.
InConflictSet(sid, i) ==
    LET published == heap0[sid][i].Published
        r         == ParseUint(published)
    IN  published # <<>> /\ r.ok /\ r.val \in DOMAIN conflicts

\* C25: at every point of ResolvePortConflicts, and so at its return with or
\* without an error, the services keep their names and their slices, every
\* slice keeps its length, every binding keeps its container port and its
\* protocol at its index, and a binding whose original host port is not in
\* the conflict set of the first detection is unchanged; the first
\* detection itself leaves every binding as it was.
C25_OnlyConflictingHostPortsChange ==
    /\ DOMAIN heap = DOMAIN heap0
    /\ \A n \in DOMAIN services : services[n].Ports = SliceOf(0, n)
    /\ \A sid \in DOMAIN heap0 :
         /\ Len(heap[sid]) = Len(heap0[sid])
         /\ \A i \in 1..Len(heap0[sid]) :
              /\ heap[sid][i].Target = heap0[sid][i].Target
              /\ heap[sid][i].Protocol = heap0[sid][i].Protocol
              /\ ~InConflictSet(sid, i) => heap[sid][i] = heap0[sid][i]
    /\ (pc = "resolve_loop" /\ todo = DOMAIN services) => heap = heap0

\* A failed call has rewritten a binding and left alone a binding with a
\* host port number outside the conflict set.
C25_Witness ==
    /\ Returned
    /\ err # NoError
    /\ heap # heap0
    /\ \E sid \in DOMAIN heap0 : \E i \in 1..Len(heap0[sid]) :
         /\ ParseUint(heap0[sid][i].Published).ok
         /\ ~InConflictSet(sid, i)

\* The conflicting bindings of the services the loop has been through
\* without an error.
VisitedBindings == {b \in ConflictingBindings : b[1] \notin todo}

\* C26: when ResolvePortConflicts returns an error, every conflicting
\* binding of a service the loop went through before the failure holds the
\* shifted port that was written to it, not its original one. The error
\* that names a port comes from inside the loop, the error for remaining
\* conflicts after the whole loop.
C26_NoRollbackOnFailure ==
    (Returned /\ err # NoError) =>
        /\ \A b \in VisitedBindings :
              PublishedOf(services, heap, b) = FormatUint(ShiftedPort(b, OriginalPort(b)))
        /\ err = RemainingError => todo = {}
        /\ err.kind = "in_use" => todo # {}

\* A failed call has left a host port number changed, and the same call
\* with another iteration order also fails and leaves other arrays.
C26_Witness ==
    /\ Returned
    /\ err.kind = "in_use"
    /\ \E b \in VisitedBindings :
          ParseUint(PublishedOf(services, heap, b)).val # OriginalPort(b)
    /\ \E order \in Orders(DOMAIN services) :
          LET other == RunResolve(services, heap0, offset, order)
          IN  other.err # NoError /\ other.heap # heap

\* ------------------------------------------------------------------ one port number, several bindings

\* ParseUint succeeds on the host port of binding b.
Parses(h, b) == ParseUint(PublishedOf(services, h, b)).ok

\* The bindings of service n that published the port p before the call.
OwnPublishers(n, p) ==
    {b \in {<<n, i>> : i \in 1..Len(heap0[services[n].Ports])} :
        ParseUint(PublishedOf(services, heap0, b)) = [ok |-> TRUE, val |-> p]}

\* The services with two or more bindings on one host port number.
DoubledPorts ==
    {<<b[1], OriginalPort(b)>> :
        b \in {c \in BindingsOf(services, heap0) :
                 /\ Parses(heap0, c)
                 /\ \E i \in (c[2] + 1)..Len(heap0[services[c[1]].Ports]) :
                       ParseUint(PublishedOf(services, heap0, <<c[1], i>>))
                          = ParseUint(PublishedOf(services, heap0, c))}}

BindingAt(b) == heap0[services[b[1]].Ports][b[2]]

\* The port number binding b publishes now.
CurrentPort(b) == ParseUint(PublishedOf(services, heap, b)).val

\* The pairs of bindings of different services that published one host
\* port number on a different protocol or container port.
DifferingPublishers ==
    {e \in BindingsOf(services, heap0) \X BindingsOf(services, heap0) :
        /\ e[1][1] # e[2][1]
        /\ \/ BindingAt(e[1]).Protocol # BindingAt(e[2]).Protocol
           \/ BindingAt(e[1]).Target # BindingAt(e[2]).Target
        /\ Parses(heap0, e[1])
        /\ ParseUint(BindingAt(e[1]).Published) = ParseUint(BindingAt(e[2]).Published)}

\* C28: when ResolvePortConflicts returns, two services that published the
\* same host port number are in the conflicts it detected for that number
\* even when their bindings differ in protocol or in container port, and
\* after a successful call the two bindings no longer publish the same
\* number: one of them has left the original port.
C28_HostPortNumberAlone ==
    Returned =>
        \A e \in DifferingPublishers :
            /\ OriginalPort(e[1]) \in DOMAIN conflicts
            /\ {e[1][1], e[2][1]} \subseteq Range(conflicts[OriginalPort(e[1])])
            /\ err = NoError =>
                  /\ CurrentPort(e[1]) # CurrentPort(e[2])
                  /\ \/ CurrentPort(e[1]) # OriginalPort(e[1])
                     \/ CurrentPort(e[2]) # OriginalPort(e[1])

\* A successful call on two services that published one port number on
\* different protocols and container ports.
C28_Witness ==
    /\ Succeeded
    /\ \E e \in DifferingPublishers :
          /\ BindingAt(e[1]).Protocol # BindingAt(e[2]).Protocol
          /\ BindingAt(e[1]).Target # BindingAt(e[2]).Target
          /\ CurrentPort(e[1]) = OriginalPort(e[1])
          /\ CurrentPort(e[2]) # OriginalPort(e[1])

\* ------------------------------------------------------------------ port arithmetic

\* p + offset * index for binding b as an integer pair, not reduced.
ExactShift(b) ==
    ExactPort(OriginalPort(b), offset, PositionIn(conflicts[OriginalPort(b)], b[1]))

\* An integer pair reduced modulo 2^32.
Wrap(x) == U32(x[1] % Half, x[2])

\* Some host port number is published by two bindings.
PublishedTwice ==
    \E b, c \in BindingsOf(services, heap) :
        /\ b # c
        /\ Parses(heap, b)
        /\ CurrentPort(b) = CurrentPort(c)
        /\ Parses(heap, c)

\* C29: when ResolvePortConflicts returns, every decimal host port below
\* 2^32 has been parsed; the port written to a conflicting binding is
\* (hostPort + offset*index) mod 2^32 in decimal, above 65535 and after a
\* wrap-around too; and the error, if any, is for a computed port claimed
\* earlier in the pass or for a port number still published twice, never
\* for the size of a computed port.
C29_Uint32NoRangeCheck ==
    Returned =>
        /\ \A b \in BindingsOf(services, heap0) :
              IsHostPortNumber(PublishedOf(services, heap0, b)) => Parses(heap0, b)
        /\ \A b \in VisitedBindings :
              PublishedOf(services, heap, b) = FormatUint(Wrap(ExactShift(b)))
        /\ err.kind = "in_use" => err.port \in usedPorts
        /\ err = RemainingError => PublishedTwice
        /\ (~PublishedTwice /\ todo = {}) => err = NoError

\* A successful call has written a port above 65535 and a port that wrapped
\* around 2^32.
C29_Witness ==
    /\ Succeeded
    /\ \E b \in VisitedBindings : ExactShift(b)[1] >= Half
    /\ \E b \in VisitedBindings : CurrentPort(b)[1] > 0

====
